---------------------------- MODULE Spec2Model ----------------------------
(***************************************************************************)
(* Model of the trading account ledger of output/accounts.py, of the      *)
(* handlers of output/app.py that call it, and of threads sharing it.      *)
(*                                                                         *)
(* An Account is the record of its four private fields.  Every public      *)
(* method is an operator that takes the account and the arguments and      *)
(* returns the account as the method leaves it together with the           *)
(* exception it raised (NoError when it returned normally); statements     *)
(* are applied in source order, so an exception raised half way keeps the  *)
(* assignments made before it.  One action per public mutating method      *)
(* applies the operator to the state and records the call and its outcome. *)
(*                                                                         *)
(* Numbers.  Cash amounts and prices are finite numbers that the float     *)
(* arithmetic of the methods represents exactly (integer values); they     *)
(* are Int here.  A quantity argument keeps its Python type, since the     *)
(* methods test it with isinstance: it is a record                         *)
(* [isint |-> BOOLEAN, halves |-> Int] whose value is halves / 2.          *)
(* Strings are tuples of one-character strings, so that str.upper() is     *)
(* computed character by character.  None is {}, a present optional        *)
(* value v is {v}.                                                         *)
(*                                                                         *)
(* lastCall, lastError and lastReturn are what the caller of the last      *)
(* method saw: the call, the exception raised and the value returned.      *)
(* callerValue is the collection a caller keeps from get_holdings or       *)
(* get_transaction_history.  The records of a list are objects: the        *)
(* element of a returned list is a reference to the record object it       *)
(* names, so that a copy of the list shares its records with the ledger.   *)
(*                                                                         *)
(* frames holds, for every thread that calls the account, the method it    *)
(* is in and the statement it is at; serial is TRUE as long as no thread   *)
(* has entered a method while another was inside one.                      *)
(***************************************************************************)
EXTENDS Integers, Sequences, FiniteSets, TLC

VARIABLES cash_balance, total_deposits, holdings, transactions,
          lastCall, lastError, lastReturn, callerValue, frames, serial

vars == <<cash_balance, total_deposits, holdings, transactions,
          lastCall, lastError, lastReturn, callerValue, frames, serial>>

---------------------------------------------------------------------------
(* Bounds of the model *)

\* longest transaction log explored
MaxTransactions == 4

\* amounts passed to deposit and withdraw
Amounts == {-150, 0, 150, 850}

\* quantities passed to buy_shares and sell_shares: -1, 0, 1, 2 and 1.5
Quantities ==
    {[isint |-> TRUE, halves |-> -2], [isint |-> TRUE, halves |-> 0],
     [isint |-> TRUE, halves |-> 2], [isint |-> TRUE, halves |-> 4],
     [isint |-> FALSE, halves |-> 3]}

\* statements a caller makes on one returned collection
MaxCallerWrites == 2

\* symbols passed to buy_shares and sell_shares
Symbols ==
    {<<"A", "A", "P", "L">>, <<"a", "a", "p", "l">>,
     <<"T", "S", "L", "A">>, <<"F", "A", "K", "E">>}

\* threads that call the one account
Threads == {1, 2}

---------------------------------------------------------------------------
(* Python values *)

None == {}

Some(v) == {v}

NoError == "NoError"

\* isinstance(quantity, int)
isinstance_int(quantity) == quantity.isint

\* the int value of a quantity that is an int
int_value(quantity) == quantity.halves \div 2

LowerCase ==
    <<"a", "b", "c", "d", "e", "f", "g", "h", "i", "j", "k", "l", "m",
      "n", "o", "p", "q", "r", "s", "t", "u", "v", "w", "x", "y", "z">>

UpperCase ==
    <<"A", "B", "C", "D", "E", "F", "G", "H", "I", "J", "K", "L", "M",
      "N", "O", "P", "Q", "R", "S", "T", "U", "V", "W", "X", "Y", "Z">>

upper_char(c) ==
    IF \E i \in 1..Len(LowerCase) : LowerCase[i] = c
    THEN UpperCase[CHOOSE i \in 1..Len(LowerCase) : LowerCase[i] = c]
    ELSE c

\* str.upper()
upper(symbol) == [i \in 1..Len(symbol) |-> upper_char(symbol[i])]

\* dict.get(key, default)
dict_get(d, key, default) == IF key \in DOMAIN d THEN d[key] ELSE default

\* d[key] = value
dict_set(d, key, value) ==
    [k \in DOMAIN d \cup {key} |-> IF k = key THEN value ELSE d[k]]

\* del d[key]
dict_del(d, key) == [k \in DOMAIN d \ {key} |-> d[k]]

\* the outcome of a method call: the account after it and what it raised
Return(self) == [self |-> self, raised |-> NoError]

Raise(self, error) == [self |-> self, raised |-> error]

---------------------------------------------------------------------------
(* get_share_price *)

prices ==
    (<<"A", "A", "P", "L">> :> 150) @@ (<<"G", "O", "O", "G", "L">> :> 2500)
        @@ (<<"T", "S", "L", "A">> :> 700)

\* an unknown symbol priced 0 instead of refused
get_share_price_defaults(symbol) ==
    LET normalized_symbol == upper(symbol)
    IN  IF normalized_symbol \notin DOMAIN prices
        THEN [raised |-> NoError, value |-> 0]
        ELSE [raised |-> NoError, value |-> prices[normalized_symbol]]

\* the price, or the InvalidSymbolError raised
get_share_price(symbol) ==
    LET normalized_symbol == upper(symbol)
    IN  IF normalized_symbol \notin DOMAIN prices
        THEN [raised |-> "InvalidSymbolError", value |-> 0]
        ELSE [raised |-> NoError, value |-> prices[normalized_symbol]]

---------------------------------------------------------------------------
(* Account *)

\* Account.__init__
Account_init ==
    [cash_balance |-> 0, total_deposits |-> 0,
     holdings |-> <<>>, transactions |-> <<>>]

\* the record put at the head of the log
record_transaction_at_head(self, trans_type, total_value, symbol, quantity, price_per_share) ==
    LET transaction ==
            [type |-> trans_type, symbol |-> symbol, quantity |-> quantity,
             price_per_share |-> price_per_share, total_value |-> total_value]
    IN  [self EXCEPT !.transactions = <<transaction>> \o @]

\* the datetime.now() timestamp of a record is read by no method of Account
\* and is not part of the record here
record_transaction(self, trans_type, total_value, symbol, quantity, price_per_share) ==
    LET transaction ==
            [type |-> trans_type, symbol |-> symbol, quantity |-> quantity,
             price_per_share |-> price_per_share, total_value |-> total_value]
    IN  [self EXCEPT !.transactions = Append(@, transaction)]

\* the positivity test of deposit letting zero through
deposit_invalid_negative_only(amount) == amount < 0

deposit_invalid(amount) == amount <= 0

\* deposit with the balance overwritten instead of increased
deposit_overwrites_balance(self, amount) ==
    IF deposit_invalid(amount)
    THEN Raise(self, "ValueError")
    ELSE LET s1 == [self EXCEPT !.cash_balance = amount]
             s2 == [s1 EXCEPT !.total_deposits = @ + amount]
         IN  Return(record_transaction(s2, "DEPOSIT", amount, None, None, None))

deposit(self, amount) ==
    IF deposit_invalid(amount)
    THEN Raise(self, "ValueError")
    ELSE LET s1 == [self EXCEPT !.cash_balance = @ + amount]
             s2 == [s1 EXCEPT !.total_deposits = @ + amount]
         IN  Return(record_transaction(s2, "DEPOSIT", amount, None, None, None))

\* the positivity test of withdraw letting zero through
withdraw_invalid_negative_only(amount) == amount < 0

withdraw_invalid(amount) == amount <= 0

\* the funds test of withdraw left out
withdraw_insufficient_never(self, amount) == FALSE

\* the funds test of withdraw refusing the whole balance
withdraw_insufficient_or_equal(self, amount) == amount >= self.cash_balance

withdraw_insufficient(self, amount) == amount > self.cash_balance

\* withdraw debiting before it tests the funds
withdraw_debits_first(self, amount) ==
    IF withdraw_invalid(amount)
    THEN Raise(self, "ValueError")
    ELSE LET s1 == [self EXCEPT !.cash_balance = @ - amount]
         IN  IF s1.cash_balance < 0
             THEN Raise(s1, "InsufficientFundsError")
             ELSE Return(record_transaction(s1, "WITHDRAW", amount, None, None, None))

\* withdraw taking the amount off the deposit total as well
withdraw_reduces_deposits(self, amount) ==
    IF withdraw_invalid(amount)
    THEN Raise(self, "ValueError")
    ELSE IF withdraw_insufficient(self, amount)
    THEN Raise(self, "InsufficientFundsError")
    ELSE LET s1 == [self EXCEPT !.cash_balance = @ - amount]
             s2 == [s1 EXCEPT !.total_deposits = @ - amount]
         IN  Return(record_transaction(s2, "WITHDRAW", amount, None, None, None))

withdraw(self, amount) ==
    IF withdraw_invalid(amount)
    THEN Raise(self, "ValueError")
    ELSE IF withdraw_insufficient(self, amount)
    THEN Raise(self, "InsufficientFundsError")
    ELSE LET s1 == [self EXCEPT !.cash_balance = @ - amount]
         IN  Return(record_transaction(s1, "WITHDRAW", amount, None, None, None))

\* the quantity test without its isinstance part
quantity_invalid_sign_only(quantity) == quantity.halves <= 0

quantity_invalid(quantity) ==
    ~isinstance_int(quantity) \/ quantity.halves <= 0

buy_insufficient(self, total_cost) == total_cost > self.cash_balance

\* the price of one share charged whatever the quantity
buy_update_charges_one_share(self, normalized_symbol, quantity, total_cost) ==
    LET s1 == [self EXCEPT !.cash_balance =
                  @ - (total_cost \div int_value(quantity))]
    IN  [s1 EXCEPT !.holdings =
            dict_set(@, normalized_symbol,
                     dict_get(@, normalized_symbol, 0) + int_value(quantity))]

\* the bought quantity stored instead of added to the quantity held
buy_update_overwrites(self, normalized_symbol, quantity, total_cost) ==
    LET s1 == [self EXCEPT !.cash_balance = @ - total_cost]
    IN  [s1 EXCEPT !.holdings =
            dict_set(@, normalized_symbol, int_value(quantity))]

buy_update(self, normalized_symbol, quantity, total_cost) ==
    LET s1 == [self EXCEPT !.cash_balance = @ - total_cost]
    IN  [s1 EXCEPT !.holdings =
            dict_set(@, normalized_symbol,
                     dict_get(@, normalized_symbol, 0) + int_value(quantity))]

\* buy_shares filing the shares under the symbol as it was spelled
buy_shares_keeps_spelling(self, symbol, quantity) ==
    IF quantity_invalid(quantity)
    THEN Raise(self, "ValueError")
    ELSE LET normalized_symbol == upper(symbol)
             price == get_share_price(normalized_symbol)
             total_cost == price.value * int_value(quantity)
         IN  IF price.raised # NoError
             THEN Raise(self, price.raised)
             ELSE IF buy_insufficient(self, total_cost)
             THEN Raise(self, "InsufficientFundsError")
             ELSE Return(record_transaction(
                      buy_update(self, symbol, quantity, total_cost),
                      "BUY", total_cost, Some(symbol),
                      Some(int_value(quantity)), Some(price.value)))

\* buy_shares asking the price before it validates the quantity
buy_shares_price_first(self, symbol, quantity) ==
    LET normalized_symbol == upper(symbol)
        price == get_share_price(normalized_symbol)
        total_cost == price.value * int_value(quantity)
    IN  IF price.raised # NoError
        THEN Raise(self, price.raised)
        ELSE IF quantity_invalid(quantity)
        THEN Raise(self, "ValueError")
        ELSE IF buy_insufficient(self, total_cost)
        THEN Raise(self, "InsufficientFundsError")
        ELSE Return(record_transaction(
                 buy_update(self, normalized_symbol, quantity, total_cost),
                 "BUY", total_cost, Some(normalized_symbol),
                 Some(int_value(quantity)), Some(price.value)))

buy_shares(self, symbol, quantity) ==
    IF quantity_invalid(quantity)
    THEN Raise(self, "ValueError")
    ELSE LET normalized_symbol == upper(symbol)
             price == get_share_price(normalized_symbol)
             total_cost == price.value * int_value(quantity)
         IN  IF price.raised # NoError
             THEN Raise(self, price.raised)
             ELSE IF buy_insufficient(self, total_cost)
             THEN Raise(self, "InsufficientFundsError")
             ELSE Return(record_transaction(
                      buy_update(self, normalized_symbol, quantity, total_cost),
                      "BUY", total_cost, Some(normalized_symbol),
                      Some(int_value(quantity)), Some(price.value)))

\* the entry deleted whatever quantity is left
sell_update_removes_entry(self, normalized_symbol, quantity, total_proceeds) ==
    LET s1 == [self EXCEPT !.cash_balance = @ + total_proceeds]
    IN  [s1 EXCEPT !.holdings = dict_del(@, normalized_symbol)]

\* the entry kept when its quantity reaches zero
sell_update_keeps_zero(self, normalized_symbol, quantity, total_proceeds) ==
    LET s1 == [self EXCEPT !.cash_balance = @ + total_proceeds]
    IN  [s1 EXCEPT !.holdings =
            dict_set(@, normalized_symbol,
                     @[normalized_symbol] - int_value(quantity))]

\* the proceeds taken off the balance instead of added to it
sell_update_debits(self, normalized_symbol, quantity, total_proceeds) ==
    LET s1 == [self EXCEPT !.cash_balance = @ - total_proceeds]
        s2 == [s1 EXCEPT !.holdings =
                  dict_set(@, normalized_symbol,
                           @[normalized_symbol] - int_value(quantity))]
    IN  IF s2.holdings[normalized_symbol] = 0
        THEN [s2 EXCEPT !.holdings = dict_del(@, normalized_symbol)]
        ELSE s2

sell_update(self, normalized_symbol, quantity, total_proceeds) ==
    LET s1 == [self EXCEPT !.cash_balance = @ + total_proceeds]
        s2 == [s1 EXCEPT !.holdings =
                  dict_set(@, normalized_symbol,
                           @[normalized_symbol] - int_value(quantity))]
    IN  IF s2.holdings[normalized_symbol] = 0
        THEN [s2 EXCEPT !.holdings = dict_del(@, normalized_symbol)]
        ELSE s2

\* sell_shares asking the price before it tests the quantity owned
sell_shares_price_first(self, symbol, quantity) ==
    IF quantity_invalid(quantity)
    THEN Raise(self, "ValueError")
    ELSE LET normalized_symbol == upper(symbol)
             current_shares == dict_get(self.holdings, normalized_symbol, 0)
             price == get_share_price(normalized_symbol)
             total_proceeds == price.value * int_value(quantity)
         IN  IF price.raised # NoError
             THEN Raise(self, price.raised)
             ELSE IF current_shares < int_value(quantity)
             THEN Raise(self, "InsufficientSharesError")
             ELSE Return(record_transaction(
                      sell_update(self, normalized_symbol, quantity, total_proceeds),
                      "SELL", total_proceeds, Some(normalized_symbol),
                      Some(int_value(quantity)), Some(price.value)))

sell_shares(self, symbol, quantity) ==
    IF quantity_invalid(quantity)
    THEN Raise(self, "ValueError")
    ELSE LET normalized_symbol == upper(symbol)
             current_shares == dict_get(self.holdings, normalized_symbol, 0)
             price == get_share_price(normalized_symbol)
             total_proceeds == price.value * int_value(quantity)
         IN  IF current_shares < int_value(quantity)
             THEN Raise(self, "InsufficientSharesError")
             ELSE IF price.raised # NoError
             THEN Raise(self, price.raised)
             ELSE IF normalized_symbol \notin DOMAIN self.holdings
             THEN Raise([self EXCEPT !.cash_balance = @ + total_proceeds],
                        "KeyError")
             ELSE Return(record_transaction(
                      sell_update(self, normalized_symbol, quantity, total_proceeds),
                      "SELL", total_proceeds, Some(normalized_symbol),
                      Some(int_value(quantity)), Some(price.value)))

\* the loop of get_portfolio_value over the entries not yet visited
RECURSIVE holdings_value(_, _)
holdings_value(self, symbols) ==
    IF symbols = {}
    THEN 0
    ELSE LET symbol == CHOOSE k \in symbols : TRUE
             quantity == self.holdings[symbol]
             price == get_share_price(symbol)
         IN  (IF price.raised = "InvalidSymbolError"
              THEN 0
              ELSE price.value * quantity)
                 + holdings_value(self, symbols \ {symbol})

\* the value of the shares alone
get_portfolio_value_without_cash(self) ==
    [self |-> self, raised |-> NoError,
     value |-> holdings_value(self, DOMAIN self.holdings)]

get_portfolio_value(self) ==
    [self |-> self, raised |-> NoError,
     value |-> self.cash_balance + holdings_value(self, DOMAIN self.holdings)]

\* a loss reported as zero
get_profit_loss_floored(self) ==
    LET portfolio_value == get_portfolio_value(self)
        difference == portfolio_value.value - self.total_deposits
    IN  [self |-> portfolio_value.self, raised |-> portfolio_value.raised,
         value |-> IF difference < 0 THEN 0 ELSE difference]

get_profit_loss(self) ==
    LET portfolio_value == get_portfolio_value(self)
    IN  [self |-> portfolio_value.self, raised |-> portfolio_value.raised,
         value |-> portfolio_value.value - self.total_deposits]

\* an element of a list of records: the ledger's record object number i,
\* or a record object the caller made
Ref(i) == [ref |-> Some(i), own |-> None]

Own(record) == [ref |-> None, own |-> Some(record)]

\* list.copy(): a new list of the same record objects
get_transaction_history(self) ==
    [self |-> self, raised |-> NoError,
     value |-> [i \in 1..Len(self.transactions) |-> Ref(i)]]

\* dict.copy(): a new dict of the same keys and int values
get_holdings(self) ==
    [self |-> self, raised |-> NoError, value |-> self.holdings]

get_cash_balance(self) ==
    [self |-> self, raised |-> NoError, value |-> self.cash_balance]

---------------------------------------------------------------------------
(* The state machine: one account, called through its public methods *)

\* the account held in the variables
Self ==
    [cash_balance |-> cash_balance, total_deposits |-> total_deposits,
     holdings |-> holdings, transactions |-> transactions]

AmountCall(op, amount) ==
    [op |-> op, amount |-> Some(amount), symbol |-> None, quantity |-> None]

ShareCall(op, symbol, quantity) ==
    [op |-> op, amount |-> None, symbol |-> Some(symbol),
     quantity |-> Some(quantity)]

\* a thread that is in no method of the account
Idle ==
    [pc |-> "idle",
     call |-> [op |-> "none", amount |-> None, symbol |-> None,
               quantity |-> None]]

\* the caller is alone: no thread is inside a method
OneCaller == UNCHANGED <<frames, serial>>

\* the call leaves the account as result.self and has raised result.raised
Called(call, result) ==
    /\ Len(result.self.transactions) <= MaxTransactions
    /\ cash_balance' = result.self.cash_balance
    /\ total_deposits' = result.self.total_deposits
    /\ holdings' = result.self.holdings
    /\ transactions' = result.self.transactions
    /\ lastCall' = call
    /\ lastError' = result.raised
    /\ lastReturn' = None
    /\ UNCHANGED callerValue
    /\ OneCaller

\* a caller that keeps no collection
NoCallerValue == [holdings |-> None, history |-> None, writes |-> 0]

Init ==
    /\ cash_balance = Account_init.cash_balance
    /\ total_deposits = Account_init.total_deposits
    /\ holdings = Account_init.holdings
    /\ transactions = Account_init.transactions
    /\ lastCall = [op |-> "__init__", amount |-> None, symbol |-> None,
                   quantity |-> None]
    /\ lastError = NoError
    /\ lastReturn = None
    /\ callerValue = NoCallerValue
    /\ frames = [t \in Threads |-> Idle]
    /\ serial = TRUE

Deposit ==
    \E amount \in Amounts :
        Called(AmountCall("deposit", amount), deposit(Self, amount))

Withdraw ==
    \E amount \in Amounts :
        Called(AmountCall("withdraw", amount), withdraw(Self, amount))

BuyShares ==
    \E symbol \in Symbols, quantity \in Quantities :
        Called(ShareCall("buy_shares", symbol, quantity),
               buy_shares(Self, symbol, quantity))

SellShares ==
    \E symbol \in Symbols, quantity \in Quantities :
        Called(ShareCall("sell_shares", symbol, quantity),
               sell_shares(Self, symbol, quantity))

Next == Deposit \/ Withdraw \/ BuyShares \/ SellShares

Spec == Init /\ [][Next]_vars

---------------------------------------------------------------------------
(* The account with its reports *)

NoArgsCall(op) ==
    [op |-> op, amount |-> None, symbol |-> None, quantity |-> None]

\* the call leaves the account as result.self and has returned result.value
Returned(call, result) ==
    /\ cash_balance' = result.self.cash_balance
    /\ total_deposits' = result.self.total_deposits
    /\ holdings' = result.self.holdings
    /\ transactions' = result.self.transactions
    /\ lastCall' = call
    /\ lastError' = result.raised
    /\ lastReturn' = Some(result.value)
    /\ UNCHANGED callerValue
    /\ OneCaller

GetPortfolioValue ==
    Returned(NoArgsCall("get_portfolio_value"), get_portfolio_value(Self))

GetProfitLoss ==
    Returned(NoArgsCall("get_profit_loss"), get_profit_loss(Self))

NextReports == Next \/ GetPortfolioValue \/ GetProfitLoss

SpecReports == Init /\ [][NextReports]_vars

---------------------------------------------------------------------------
(* The account with a caller that changes the collections it was returned *)

\* what the caller writes
NewSymbol == <<"N", "E", "W">>

NewQuantity == 99

NewRecord ==
    [type |-> "new", symbol |-> None, quantity |-> None,
     price_per_share |-> None, total_value |-> 0]

\* the account in the variables becomes self
LedgerBecomes(self) ==
    /\ cash_balance' = self.cash_balance
    /\ total_deposits' = self.total_deposits
    /\ holdings' = self.holdings
    /\ transactions' = self.transactions
    /\ OneCaller

\* the caller keeps the dict that get_holdings returns
GetHoldings ==
    LET result == get_holdings(Self)
    IN  /\ LedgerBecomes(result.self)
        /\ lastCall' = NoArgsCall("get_holdings")
        /\ lastError' = result.raised
        /\ lastReturn' = None
        /\ callerValue' = [holdings |-> Some(result.value), history |-> None,
                           writes |-> 0]

\* the caller keeps the list that get_transaction_history returns
GetTransactionHistory ==
    LET result == get_transaction_history(Self)
    IN  /\ LedgerBecomes(result.self)
        /\ lastCall' = NoArgsCall("get_transaction_history")
        /\ lastError' = result.raised
        /\ lastReturn' = None
        /\ callerValue' = [holdings |-> None, history |-> Some(result.value),
                           writes |-> 0]

\* a statement of the caller leaves the account as self and its value as value
CallerDid(op, self, value) ==
    /\ callerValue.writes < MaxCallerWrites
    /\ LedgerBecomes(self)
    /\ lastCall' = NoArgsCall(op)
    /\ lastError' = NoError
    /\ lastReturn' = None
    /\ callerValue' = [value EXCEPT !.writes = @ + 1]

\* returned_holdings[NewSymbol] = NewQuantity
CallerSetsHolding ==
    \E d \in callerValue.holdings :
        CallerDid("caller_sets_holding", Self,
                  [callerValue EXCEPT
                      !.holdings = Some(dict_set(d, NewSymbol, NewQuantity))])

\* del returned_holdings[key]
CallerDeletesHolding ==
    \E d \in callerValue.holdings : \E key \in DOMAIN d :
        CallerDid("caller_deletes_holding", Self,
                  [callerValue EXCEPT !.holdings = Some(dict_del(d, key))])

\* returned_history.append(NewRecord)
CallerAppendsRecord ==
    \E l \in callerValue.history :
        CallerDid("caller_appends_record", Self,
                  [callerValue EXCEPT
                      !.history = Some(Append(l, Own(NewRecord)))])

\* del returned_history[i]
CallerDeletesRecord ==
    \E l \in callerValue.history : \E i \in 1..Len(l) :
        CallerDid("caller_deletes_record", Self,
                  [callerValue EXCEPT
                      !.history = Some(SubSeq(l, 1, i - 1)
                                           \o SubSeq(l, i + 1, Len(l)))])

\* returned_history[i]['total_value'] = 0 writes the record object that
\* element i names, wherever else that object is listed
CallerAltersLedgerRecord ==
    \E l \in callerValue.history : \E i \in 1..Len(l) : \E n \in l[i].ref :
        CallerDid("caller_alters_record",
                  [Self EXCEPT !.transactions[n].total_value = 0],
                  callerValue)

CallerAltersOwnRecord ==
    \E l \in callerValue.history : \E i \in 1..Len(l) : \E record \in l[i].own :
        CallerDid("caller_alters_record", Self,
                  [callerValue EXCEPT
                      !.history = Some([l EXCEPT ![i] =
                          Own([record EXCEPT !.total_value = 1])])])

\* the calls of the account are those it accepts: a refused call leaves the
\* account and the caller's value as they were
NextCaller ==
    \/ Deposit /\ lastError' = NoError
    \/ BuyShares /\ lastError' = NoError
    \/ GetHoldings
    \/ GetTransactionHistory
    \/ CallerSetsHolding
    \/ CallerDeletesHolding
    \/ CallerAppendsRecord
    \/ CallerDeletesRecord
    \/ CallerAltersLedgerRecord
    \/ CallerAltersOwnRecord

SpecCaller == Init /\ [][NextCaller]_vars

---------------------------------------------------------------------------
(* app.py: the handlers of the user interface on the one shared account.   *)
(* An input of a handler is None or a value, as a number field or a        *)
(* dropdown delivers it.  A message is the tuple of its parts, its first   *)
(* element the words it starts with; the text of an exception is the name  *)
(* of its class.  The holdings table is the set of its rows, the order of  *)
(* the rows being the insertion order of the dict, which holdings does not *)
(* keep.  The timestamp column is left out with the timestamp.             *)

\* the amount the account is funded with when the module is loaded
PreFund == 10000

\* amounts entered in the amount fields
AppAmounts ==
    {None} \cup {Some(a) : a \in {-150, 0, 150, PreFund}}

\* quantities entered in the quantity field: nothing, the ints -1, 0 and 1,
\* and the floats 0.5, 1.0 and 1.5
AppQuantities ==
    {None} \cup
        {Some(q) : q \in {[isint |-> TRUE, halves |-> -2],
                          [isint |-> TRUE, halves |-> 0],
                          [isint |-> TRUE, halves |-> 2],
                          [isint |-> FALSE, halves |-> 1],
                          [isint |-> FALSE, halves |-> 2],
                          [isint |-> FALSE, halves |-> 3]}}

\* symbols chosen: none, the empty string, a listed and an unlisted symbol
AppSymbols ==
    {None, Some(<<>>), Some(<<"A", "A", "P", "L">>),
     Some(<<"F", "A", "K", "E">>)}

TradingError ==
    {"InsufficientFundsError", "InsufficientSharesError", "InvalidSymbolError"}

\* int(quantity): the value truncated toward zero, as a Python int
int(quantity) ==
    [isint |-> TRUE,
     halves |-> IF quantity.halves >= 0
                THEN 2 * (quantity.halves \div 2)
                ELSE 0 - 2 * ((0 - quantity.halves) \div 2)]

\* all([symbol, quantity]): None, "" and 0 are false
all_provided(symbol, quantity) ==
    /\ symbol # None
    /\ symbol # Some(<<>>)
    /\ quantity # None
    /\ \A q \in quantity : q.halves # 0

\* an amount of dollars as text
dollars(v) == [text |-> "$", number |-> Some(v)]

NotAvailable == [text |-> "N/A", number |-> None]

\* the module-level account
account ==
    IF get_cash_balance(Account_init).value = 0
    THEN deposit(Account_init, PreFund).self
    ELSE Account_init

format_holdings_for_df(self) ==
    LET held == get_holdings(self).value
    IN  {<<symbol, held[symbol]>> : symbol \in DOMAIN held}

\* one row of the transaction table
format_row(t) ==
    <<t.type, t.symbol, t.quantity,
      IF t.price_per_share # None
      THEN dollars(CHOOSE p \in t.price_per_share : TRUE)
      ELSE NotAvailable,
      dollars(t.total_value)>>

format_transactions_for_df(self) ==
    LET history == get_transaction_history(self).value
    IN  [i \in 1..Len(history) |->
            format_row(self.transactions[
                CHOOSE n \in history[Len(history) + 1 - i].ref : TRUE])]

get_all_report_updates(self) ==
    [cash |-> get_cash_balance(self).value,
     value |-> get_portfolio_value(self).value,
     profit_loss |-> get_profit_loss(self).value,
     holdings |-> format_holdings_for_df(self),
     history |-> format_transactions_for_df(self)]

\* what a handler returns: the message and the report values
reply(self, message) ==
    [self |-> self, raised |-> NoError,
     value |-> Some([message |-> message,
                     updates |-> get_all_report_updates(self)])]

\* the except clause of a handler: an exception of a class in caught
\* becomes an "Error:" message, any other leaves the handler
handled(attempt, caught, success) ==
    IF attempt.raised = NoError
    THEN reply(attempt.self, success)
    ELSE IF attempt.raised \in caught
    THEN reply(attempt.self, <<"Error:", attempt.raised>>)
    ELSE [self |-> attempt.self, raised |-> attempt.raised, value |-> None]

\* handle_deposit catching the errors of the ledger only
handle_deposit_catches_trading_only(self, amount) ==
    LET attempt ==
            IF amount = None \/ \E a \in amount : a <= 0
            THEN Raise(self, "ValueError")
            ELSE deposit(self, CHOOSE a \in amount : TRUE)
    IN  handled(attempt, TradingError,
                <<"Successfully", "deposited", amount>>)

handle_deposit(self, amount) ==
    LET attempt ==
            IF amount = None \/ \E a \in amount : a <= 0
            THEN Raise(self, "ValueError")
            ELSE deposit(self, CHOOSE a \in amount : TRUE)
    IN  handled(attempt, TradingError \cup {"ValueError"},
                <<"Successfully", "deposited", amount>>)

handle_withdraw(self, amount) ==
    LET attempt ==
            IF amount = None \/ \E a \in amount : a <= 0
            THEN Raise(self, "ValueError")
            ELSE withdraw(self, CHOOSE a \in amount : TRUE)
    IN  handled(attempt, TradingError \cup {"ValueError"},
                <<"Successfully", "withdrew", amount>>)

handle_buy(self, symbol, quantity) ==
    LET attempt ==
            IF ~all_provided(symbol, quantity)
            THEN Raise(self, "ValueError")
            ELSE IF \E q \in quantity : q.halves <= 0
            THEN Raise(self, "ValueError")
            ELSE buy_shares(self, CHOOSE s \in symbol : TRUE,
                            int(CHOOSE q \in quantity : TRUE))
    IN  handled(attempt, TradingError \cup {"ValueError", "TypeError"},
                <<"Successfully", "bought",
                  {int_value(int(q)) : q \in quantity}, symbol>>)

handle_sell(self, symbol, quantity) ==
    LET attempt ==
            IF ~all_provided(symbol, quantity)
            THEN Raise(self, "ValueError")
            ELSE IF \E q \in quantity : q.halves <= 0
            THEN Raise(self, "ValueError")
            ELSE sell_shares(self, CHOOSE s \in symbol : TRUE,
                             int(CHOOSE q \in quantity : TRUE))
    IN  handled(attempt, TradingError \cup {"ValueError", "TypeError"},
                <<"Successfully", "sold",
                  {int_value(int(q)) : q \in quantity}, symbol>>)

\* a call of a handler with the inputs of its fields
AppCall(op, amount, symbol, quantity) ==
    [op |-> op, amount |-> amount, symbol |-> symbol, quantity |-> quantity]

\* the handler leaves the shared account as result.self, and has returned
\* result.value or raised result.raised
Handled(call, result) ==
    /\ Len(result.self.transactions) <= MaxTransactions
    /\ cash_balance' = result.self.cash_balance
    /\ total_deposits' = result.self.total_deposits
    /\ holdings' = result.self.holdings
    /\ transactions' = result.self.transactions
    /\ lastCall' = call
    /\ lastError' = result.raised
    /\ lastReturn' = result.value
    /\ UNCHANGED callerValue
    /\ OneCaller

InitApp ==
    /\ cash_balance = account.cash_balance
    /\ total_deposits = account.total_deposits
    /\ holdings = account.holdings
    /\ transactions = account.transactions
    /\ lastCall = AppCall("app", None, None, None)
    /\ lastError = NoError
    /\ lastReturn = None
    /\ callerValue = NoCallerValue
    /\ frames = [t \in Threads |-> Idle]
    /\ serial = TRUE

HandleDeposit ==
    \E amount \in AppAmounts :
        Handled(AppCall("handle_deposit", amount, None, None),
                handle_deposit(Self, amount))

HandleWithdraw ==
    \E amount \in AppAmounts :
        Handled(AppCall("handle_withdraw", amount, None, None),
                handle_withdraw(Self, amount))

HandleBuy ==
    \E symbol \in AppSymbols, quantity \in AppQuantities :
        Handled(AppCall("handle_buy", None, symbol, quantity),
                handle_buy(Self, symbol, quantity))

HandleSell ==
    \E symbol \in AppSymbols, quantity \in AppQuantities :
        Handled(AppCall("handle_sell", None, symbol, quantity),
                handle_sell(Self, symbol, quantity))

NextApp == HandleDeposit \/ HandleWithdraw \/ HandleBuy \/ HandleSell

SpecApp == InitApp /\ [][NextApp]_vars

---------------------------------------------------------------------------
(* Threads on one account.  The account has no lock, so a method that one  *)
(* thread is executing can be left between two statements while another    *)
(* thread executes statements of its own call.  A thread goes through its  *)
(* method one statement at a time: the validation (the tests and the reads *)
(* they make), then each assignment, then _record_transaction.  A          *)
(* statement is taken as one step; the interleavings inside an augmented   *)
(* assignment are not explored.                                            *)

\* calls the threads make
ThreadCalls ==
    {AmountCall("deposit", 150), AmountCall("withdraw", 150),
     AmountCall("withdraw", 0),
     ShareCall("buy_shares", <<"A", "A", "P", "L">>,
               [isint |-> TRUE, halves |-> 2]),
     ShareCall("buy_shares", <<"F", "A", "K", "E">>,
               [isint |-> TRUE, halves |-> 2]),
     ShareCall("sell_shares", <<"a", "a", "p", "l">>,
               [isint |-> TRUE, halves |-> 2]),
     ShareCall("sell_shares", <<"A", "A", "P", "L">>,
               [isint |-> FALSE, halves |-> 3])}

\* the locals of a call: they depend on the arguments only
amount_of(call) == CHOOSE a \in call.amount : TRUE

normalized_symbol_of(call) == upper(CHOOSE s \in call.symbol : TRUE)

quantity_of(call) == CHOOSE q \in call.quantity : TRUE

total_of(call) ==
    get_share_price(normalized_symbol_of(call)).value
        * int_value(quantity_of(call))

\* the statement leaves the account as self and the thread at pc, or raises
Goes(self, pc) == [self |-> self, raised |-> NoError, pc |-> pc]

Fails(self, error) == [self |-> self, raised |-> error, pc |-> "idle"]

\* the tests at the head of a method
validate(self, call) ==
    CASE call.op = "deposit" ->
            IF deposit_invalid(amount_of(call))
            THEN Fails(self, "ValueError")
            ELSE Goes(self, "cash")
      [] call.op = "withdraw" ->
            IF withdraw_invalid(amount_of(call))
            THEN Fails(self, "ValueError")
            ELSE IF withdraw_insufficient(self, amount_of(call))
            THEN Fails(self, "InsufficientFundsError")
            ELSE Goes(self, "cash")
      [] call.op = "buy_shares" ->
            IF quantity_invalid(quantity_of(call))
            THEN Fails(self, "ValueError")
            ELSE IF get_share_price(normalized_symbol_of(call)).raised # NoError
            THEN Fails(self, get_share_price(normalized_symbol_of(call)).raised)
            ELSE IF buy_insufficient(self, total_of(call))
            THEN Fails(self, "InsufficientFundsError")
            ELSE Goes(self, "cash")
      [] call.op = "sell_shares" ->
            IF quantity_invalid(quantity_of(call))
            THEN Fails(self, "ValueError")
            ELSE IF dict_get(self.holdings, normalized_symbol_of(call), 0)
                        < int_value(quantity_of(call))
            THEN Fails(self, "InsufficientSharesError")
            ELSE IF get_share_price(normalized_symbol_of(call)).raised # NoError
            THEN Fails(self, get_share_price(normalized_symbol_of(call)).raised)
            ELSE Goes(self, "cash")

\* self._cash_balance += / -= ...
update_cash(self, call) ==
    CASE call.op = "deposit" ->
            Goes([self EXCEPT !.cash_balance = @ + amount_of(call)], "total")
      [] call.op = "withdraw" ->
            Goes([self EXCEPT !.cash_balance = @ - amount_of(call)], "record")
      [] call.op = "buy_shares" ->
            Goes([self EXCEPT !.cash_balance = @ - total_of(call)], "holdings")
      [] call.op = "sell_shares" ->
            Goes([self EXCEPT !.cash_balance = @ + total_of(call)], "holdings")

\* self._total_deposits += amount
update_total_deposits(self, call) ==
    Goes([self EXCEPT !.total_deposits = @ + amount_of(call)], "record")

\* self._holdings[normalized_symbol] = ... / -= quantity
update_holdings(self, call) ==
    LET key == normalized_symbol_of(call)
        quantity == int_value(quantity_of(call))
    IN  IF call.op = "buy_shares"
        THEN Goes([self EXCEPT !.holdings =
                      dict_set(@, key, dict_get(@, key, 0) + quantity)],
                  "record")
        ELSE IF key \notin DOMAIN self.holdings
        THEN Fails(self, "KeyError")
        ELSE Goes([self EXCEPT !.holdings = dict_set(@, key, @[key] - quantity)],
                  "remove")

\* the entry left in holdings whatever its quantity
remove_empty_never(self, call) == Goes(self, "record")

\* if self._holdings[normalized_symbol] == 0: del ...
remove_empty(self, call) ==
    LET key == normalized_symbol_of(call)
    IN  IF key \notin DOMAIN self.holdings
        THEN Fails(self, "KeyError")
        ELSE IF self.holdings[key] = 0
        THEN Goes([self EXCEPT !.holdings = dict_del(@, key)], "record")
        ELSE Goes(self, "record")

\* self._record_transaction(...), after which the method returns
record_and_return(self, call) ==
    CASE call.op = "deposit" ->
            Goes(record_transaction(self, "DEPOSIT", amount_of(call),
                                    None, None, None), "idle")
      [] call.op = "withdraw" ->
            Goes(record_transaction(self, "WITHDRAW", amount_of(call),
                                    None, None, None), "idle")
      [] call.op = "buy_shares" ->
            Goes(record_transaction(
                     self, "BUY", total_of(call),
                     Some(normalized_symbol_of(call)),
                     Some(int_value(quantity_of(call))),
                     Some(get_share_price(normalized_symbol_of(call)).value)),
                 "idle")
      [] call.op = "sell_shares" ->
            Goes(record_transaction(
                     self, "SELL", total_of(call),
                     Some(normalized_symbol_of(call)),
                     Some(int_value(quantity_of(call))),
                     Some(get_share_price(normalized_symbol_of(call)).value)),
                 "idle")

\* thread t has executed a statement of its call
Stepped(t, result) ==
    /\ cash_balance' = result.self.cash_balance
    /\ total_deposits' = result.self.total_deposits
    /\ holdings' = result.self.holdings
    /\ transactions' = result.self.transactions
    /\ IF result.pc = "idle"
       THEN /\ frames' = [frames EXCEPT ![t] = Idle]
            /\ lastCall' = frames[t].call
            /\ lastError' = result.raised
       ELSE /\ frames' = [frames EXCEPT ![t].pc = result.pc]
            /\ UNCHANGED <<lastCall, lastError>>
    /\ lastReturn' = None
    /\ UNCHANGED <<callerValue, serial>>

\* thread t calls a method; it does so while another thread is in one
\* exactly when serial becomes FALSE
Enter(t) ==
    /\ frames[t] = Idle
    /\ Len(transactions) + Cardinality({u \in Threads : frames[u] # Idle})
           < MaxTransactions
    /\ \E call \in ThreadCalls :
           frames' = [frames EXCEPT ![t] = [pc |-> "check", call |-> call]]
    /\ serial' = (serial /\ \A u \in Threads \ {t} : frames[u] = Idle)
    /\ UNCHANGED <<cash_balance, total_deposits, holdings, transactions,
                   lastCall, lastError, lastReturn, callerValue>>

Validate(t) ==
    frames[t].pc = "check" /\ Stepped(t, validate(Self, frames[t].call))

UpdateCash(t) ==
    frames[t].pc = "cash" /\ Stepped(t, update_cash(Self, frames[t].call))

UpdateTotalDeposits(t) ==
    /\ frames[t].pc = "total"
    /\ Stepped(t, update_total_deposits(Self, frames[t].call))

UpdateHoldings(t) ==
    /\ frames[t].pc = "holdings"
    /\ Stepped(t, update_holdings(Self, frames[t].call))

RemoveEmpty(t) ==
    frames[t].pc = "remove" /\ Stepped(t, remove_empty(Self, frames[t].call))

RecordTransaction(t) ==
    frames[t].pc = "record" /\ Stepped(t, record_and_return(Self, frames[t].call))

NextThreads ==
    \E t \in Threads :
        \/ Enter(t)
        \/ Validate(t)
        \/ UpdateCash(t)
        \/ UpdateTotalDeposits(t)
        \/ UpdateHoldings(t)
        \/ RemoveEmpty(t)
        \/ RecordTransaction(t)

SpecThreads == Init /\ [][NextThreads]_vars

---------------------------------------------------------------------------
(* Vocabulary of the properties *)

Ledger == <<cash_balance, total_deposits, holdings, transactions>>

MutatingOps == {"deposit", "withdraw", "buy_shares", "sell_shares"}

\* the call recorded in the state is a call of op that returned normally
Succeeded(op) == lastCall.op = op /\ lastError = NoError

\* log is old with exactly one record appended
AppendsOne(old, log) ==
    Len(log) = Len(old) + 1 /\ SubSeq(log, 1, Len(old)) = old

\* old is an initial part of log
IsPrefix(old, log) ==
    Len(old) <= Len(log) /\ SubSeq(log, 1, Len(old)) = old

\* the value a Python caller means by a quantity that is a positive int
IsPositiveInt(quantity) == quantity.isint /\ quantity.halves > 0

RECURSIVE SumOfType(_, _)
\* the sum of total_value over the records of one type
SumOfType(log, type) ==
    IF log = <<>> THEN 0
    ELSE SumOfType(Tail(log), type)
             + (IF Head(log).type = type THEN Head(log).total_value ELSE 0)

\* holdings h2 is h1 except, possibly, at key
SameExceptAt(h1, h2, key) ==
    /\ DOMAIN h1 \ {key} = DOMAIN h2 \ {key}
    /\ \A k \in DOMAIN h1 \ {key} : h2[k] = h1[k]

---------------------------------------------------------------------------
(* C1: the cash balance is never negative; a step raises it only if it is  *)
(* a successful deposit or sell, and lowers it only if it is a successful  *)
(* withdraw or buy.                                                        *)

C1_Step ==
    /\ cash_balance' >= 0
    /\ cash_balance' > cash_balance =>
           lastError' = NoError /\ lastCall'.op \in {"deposit", "sell_shares"}
    /\ cash_balance' < cash_balance =>
           lastError' = NoError /\ lastCall'.op \in {"withdraw", "buy_shares"}

C1_CashBalance == cash_balance >= 0 /\ [][C1_Step]_vars

\* a withdrawal refused on a balance that a purchase has brought to zero
C1_Witness ==
    /\ lastCall.op = "withdraw"
    /\ lastError = "InsufficientFundsError"
    /\ cash_balance = 0
    /\ Len(transactions) = 2
    /\ transactions[2].type = "BUY"

(* C2: a failed deposit, withdraw, buy_shares or sell_shares leaves cash,  *)
(* deposit total, holdings and log as they were, and the account still     *)
(* accepts every operation afterwards: every call whose preconditions hold *)
(* in that state returns normally.                                         *)

\* every call whose preconditions hold on self returns normally
Accepts(self) ==
    /\ \A amount \in Amounts :
           amount > 0 => deposit(self, amount).raised = NoError
    /\ \A amount \in Amounts :
           amount > 0 /\ amount <= self.cash_balance =>
               withdraw(self, amount).raised = NoError
    /\ \A symbol \in Symbols, quantity \in Quantities :
           /\ IsPositiveInt(quantity)
           /\ upper(symbol) \in DOMAIN prices
           /\ prices[upper(symbol)] * (quantity.halves \div 2) <= self.cash_balance
           => buy_shares(self, symbol, quantity).raised = NoError
    /\ \A symbol \in Symbols, quantity \in Quantities :
           /\ IsPositiveInt(quantity)
           /\ upper(symbol) \in DOMAIN self.holdings
           /\ quantity.halves \div 2 <= self.holdings[upper(symbol)]
           => sell_shares(self, symbol, quantity).raised = NoError

C2_Step ==
    (lastCall'.op \in MutatingOps /\ lastError' # NoError) => Ledger' = Ledger

\* the state a failed call has left accepts every operation
C2_UsableAfterFailure ==
    (lastCall.op \in MutatingOps /\ lastError # NoError) => Accepts(Self)

C2_FailureLeavesStateUsable == []C2_UsableAfterFailure /\ [][C2_Step]_vars

\* a purchase refused for lack of funds on an account that holds cash and shares
C2_Witness ==
    /\ lastCall.op = "buy_shares"
    /\ lastError = "InsufficientFundsError"
    /\ cash_balance > 0
    /\ holdings # <<>>

(* C3: the log is append-only: a successful call of a mutating operation   *)
(* appends exactly one record at the end, a failed call leaves the log as  *)
(* it was, and no step removes, reorders or alters a record of the log.    *)

C3_Step ==
    /\ IsPrefix(transactions, transactions')
    /\ lastCall'.op \in MutatingOps =>
           IF lastError' = NoError
           THEN AppendsOne(transactions, transactions')
           ELSE transactions' = transactions

C3_AppendOnly == [][C3_Step]_vars

\* a successful call on a log that already holds two records of other types
C3_Witness ==
    /\ Succeeded("sell_shares")
    /\ Len(transactions) = 3
    /\ transactions[1].type = "DEPOSIT"
    /\ transactions[2].type = "BUY"
    /\ transactions[3].type = "SELL"

(* C4: every entry of holdings has a quantity >= 1, and a sell_shares call *)
(* that sells exactly the quantity owned removes the symbol's key and      *)
(* leaves the other symbols' entries unchanged.                            *)

HoldingsPositive == \A s \in DOMAIN holdings : holdings[s] >= 1

C4_Step ==
    \A symbol \in lastCall'.symbol, quantity \in lastCall'.quantity :
        /\ lastCall'.op = "sell_shares"
        /\ lastError' = NoError
        /\ upper(symbol) \in DOMAIN holdings
        /\ quantity.halves = 2 * holdings[upper(symbol)]
        => /\ upper(symbol) \notin DOMAIN holdings'
           /\ SameExceptAt(holdings, holdings', upper(symbol))

C4_HoldingsPositive == HoldingsPositive /\ [][HoldingsPositive' /\ C4_Step]_vars

\* all shares of one symbol sold while another symbol is held
C4_Witness ==
    /\ Succeeded("sell_shares")
    /\ \A symbol \in lastCall.symbol : upper(symbol) \notin DOMAIN holdings
    /\ holdings # <<>>

(* C5: total_deposits never decreases: a successful deposit raises it by   *)
(* exactly the amount, every other call and every failed call leaves it    *)
(* unchanged, and it always equals the sum of total_value over the DEPOSIT *)
(* records of the log.                                                     *)

DepositsMatchLog == total_deposits = SumOfType(transactions, "DEPOSIT")

C5_Step ==
    /\ total_deposits' >= total_deposits
    /\ DepositsMatchLog'
    /\ IF lastCall'.op = "deposit" /\ lastError' = NoError
       THEN \A amount \in lastCall'.amount :
                total_deposits' = total_deposits + amount
       ELSE total_deposits' = total_deposits

C5_TotalDeposited == DepositsMatchLog /\ [][C5_Step]_vars

\* a withdrawal and a purchase made after two deposits
C5_Witness ==
    /\ Succeeded("buy_shares")
    /\ Len(transactions) = 4
    /\ transactions[1].type = "DEPOSIT"
    /\ transactions[2].type = "DEPOSIT"
    /\ transactions[3].type = "WITHDRAW"
    /\ total_deposits > cash_balance

(* C6: deposit(amount) with amount > 0 succeeds, increases cash_balance    *)
(* and total_deposits each by exactly amount, appends one DEPOSIT record   *)
(* whose total_value is amount, and leaves holdings and the earlier        *)
(* records unchanged.                                                      *)

C6_Step ==
    \A amount \in lastCall'.amount :
        lastCall'.op = "deposit" /\ amount > 0 =>
            /\ lastError' = NoError
            /\ cash_balance' = cash_balance + amount
            /\ total_deposits' = total_deposits + amount
            /\ holdings' = holdings
            /\ AppendsOne(transactions, transactions')
            /\ transactions'[Len(transactions')].type = "DEPOSIT"
            /\ transactions'[Len(transactions')].total_value = amount

C6_Deposit == [][C6_Step]_vars

\* a deposit made on an account that holds cash and shares
C6_Witness ==
    /\ Succeeded("deposit")
    /\ holdings # <<>>
    /\ \A amount \in lastCall.amount : cash_balance > amount

(* C7: deposit(amount) and withdraw(amount) with amount <= 0 fail with     *)
(* ValueError and leave all state unchanged, whatever the balance:         *)
(* withdraw(0) and withdraw(-x) never report insufficient funds.           *)

C7_Step ==
    \A amount \in lastCall'.amount :
        lastCall'.op \in {"deposit", "withdraw"} /\ amount <= 0 =>
            lastError' = "ValueError" /\ Ledger' = Ledger

C7_InvalidAmount == [][C7_Step]_vars

\* withdraw of a negative amount refused on an empty account
C7_Witness ==
    /\ lastCall.op = "withdraw"
    /\ \A amount \in lastCall.amount : amount < 0
    /\ lastError = "ValueError"
    /\ cash_balance = 0
    /\ transactions = <<>>

(* C8: withdraw(amount) with amount > 0 fails with InsufficientFundsError  *)
(* exactly when amount > cash_balance, state unchanged; otherwise it       *)
(* succeeds, decreases cash_balance by exactly amount, appends one         *)
(* WITHDRAW record with total_value = amount and leaves total_deposits and *)
(* holdings unchanged.                                                     *)

C8_Step ==
    \A amount \in lastCall'.amount :
        lastCall'.op = "withdraw" /\ amount > 0 =>
            IF amount > cash_balance
            THEN lastError' = "InsufficientFundsError" /\ Ledger' = Ledger
            ELSE /\ lastError' = NoError
                 /\ cash_balance' = cash_balance - amount
                 /\ total_deposits' = total_deposits
                 /\ holdings' = holdings
                 /\ AppendsOne(transactions, transactions')
                 /\ transactions'[Len(transactions')].type = "WITHDRAW"
                 /\ transactions'[Len(transactions')].total_value = amount

C8_Withdraw == [][C8_Step]_vars

\* the whole balance withdrawn
C8_Witness ==
    /\ Succeeded("withdraw")
    /\ cash_balance = 0
    /\ total_deposits > 0

(* C9: buy_shares of a known symbol with price p and a positive integer q  *)
(* fails with InsufficientFundsError exactly when p*q > cash_balance, no   *)
(* mutation; otherwise it decreases cash_balance by exactly p*q, increases *)
(* holdings[symbol] by exactly q (creating the entry if absent), leaves    *)
(* total_deposits and the other symbols' holdings unchanged and appends    *)
(* one BUY record.                                                         *)

C9_Step ==
    \A symbol \in lastCall'.symbol, quantity \in lastCall'.quantity :
        /\ lastCall'.op = "buy_shares"
        /\ IsPositiveInt(quantity)
        /\ upper(symbol) \in DOMAIN prices
        => LET key == upper(symbol)
               q == quantity.halves \div 2
               cost == prices[key] * q
               owned == IF key \in DOMAIN holdings THEN holdings[key] ELSE 0
           IN  IF cost > cash_balance
               THEN lastError' = "InsufficientFundsError" /\ Ledger' = Ledger
               ELSE /\ lastError' = NoError
                    /\ cash_balance' = cash_balance - cost
                    /\ key \in DOMAIN holdings'
                    /\ holdings'[key] = owned + q
                    /\ SameExceptAt(holdings, holdings', key)
                    /\ total_deposits' = total_deposits
                    /\ AppendsOne(transactions, transactions')
                    /\ transactions'[Len(transactions')].type = "BUY"

C9_BuyShares == [][C9_Step]_vars

\* a second purchase of a symbol that spends the whole balance
C9_Witness ==
    /\ Succeeded("buy_shares")
    /\ cash_balance = 0
    /\ Len(transactions) = 4
    /\ transactions[3].type = "BUY"
    /\ \E s \in DOMAIN holdings : holdings[s] = 2

(* C10: buy_shares validates the quantity, then the symbol, then the       *)
(* funds: an invalid quantity fails with ValueError even when the symbol   *)
(* is unknown, and with a valid quantity an unknown symbol fails with      *)
(* InvalidSymbolError, never InsufficientFundsError, whatever the balance; *)
(* neither changes the state.                                              *)

C10_Step ==
    \A symbol \in lastCall'.symbol, quantity \in lastCall'.quantity :
        lastCall'.op = "buy_shares" =>
            /\ ~IsPositiveInt(quantity) =>
                   lastError' = "ValueError" /\ Ledger' = Ledger
            /\ IsPositiveInt(quantity) /\ upper(symbol) \notin DOMAIN prices =>
                   lastError' = "InvalidSymbolError" /\ Ledger' = Ledger

C10_BuyValidationOrder == [][C10_Step]_vars

\* an unknown symbol refused as such on an account without cash
C10_Witness ==
    /\ lastCall.op = "buy_shares"
    /\ \A symbol \in lastCall.symbol : upper(symbol) \notin DOMAIN prices
    /\ \A quantity \in lastCall.quantity : IsPositiveInt(quantity)
    /\ lastError = "InvalidSymbolError"
    /\ cash_balance = 0

---------------------------------------------------------------------------
(* C11: sell_shares tests the quantity owned before it asks the price: a   *)
(* positive integer quantity greater than the quantity owned of the        *)
(* uppercased symbol (0 when absent) fails with InsufficientSharesError    *)
(* and no mutation, whether or not the oracle knows the symbol; it never   *)
(* fails with InvalidSymbolError.                                          *)

\* the quantity of a symbol held, 0 when it is absent
Owned(h, key) == IF key \in DOMAIN h THEN h[key] ELSE 0

C11_Step ==
    \A symbol \in lastCall'.symbol, quantity \in lastCall'.quantity :
        /\ lastCall'.op = "sell_shares"
        /\ IsPositiveInt(quantity)
        /\ quantity.halves \div 2 > Owned(holdings, upper(symbol))
        => lastError' = "InsufficientSharesError" /\ Ledger' = Ledger

C11_SellOwnershipFirst == [][C11_Step]_vars

\* a symbol unknown to the oracle refused for lack of shares
C11_Witness ==
    /\ lastCall.op = "sell_shares"
    /\ \A symbol \in lastCall.symbol : upper(symbol) \notin DOMAIN prices
    /\ lastError = "InsufficientSharesError"
    /\ holdings # <<>>

(* C12: sell_shares of a held symbol with price p and a positive integer   *)
(* q <= the quantity owned increases cash_balance by exactly p*q,          *)
(* decreases holdings[symbol] by exactly q, leaves total_deposits and the  *)
(* other symbols' holdings unchanged and appends one SELL record carrying  *)
(* the uppercased symbol, q, p and p*q.                                    *)

C12_Step ==
    \A symbol \in lastCall'.symbol, quantity \in lastCall'.quantity :
        /\ lastCall'.op = "sell_shares"
        /\ IsPositiveInt(quantity)
        /\ upper(symbol) \in DOMAIN holdings
        /\ quantity.halves \div 2 <= holdings[upper(symbol)]
        /\ upper(symbol) \in DOMAIN prices
        => LET key == upper(symbol)
               q == quantity.halves \div 2
               p == prices[key]
           IN  /\ lastError' = NoError
               /\ cash_balance' = cash_balance + p * q
               /\ Owned(holdings', key) = holdings[key] - q
               /\ SameExceptAt(holdings, holdings', key)
               /\ total_deposits' = total_deposits
               /\ transactions' =
                      Append(transactions,
                             [type |-> "SELL", symbol |-> {key},
                              quantity |-> {q}, price_per_share |-> {p},
                              total_value |-> p * q])

C12_SellShares == [][C12_Step]_vars

\* part of a holding sold under a lower-case spelling
C12_Witness ==
    /\ Succeeded("sell_shares")
    /\ \A symbol \in lastCall.symbol :
           symbol # upper(symbol) /\ Owned(holdings, upper(symbol)) = 1
    /\ cash_balance > 0

(* C13: buy_shares and sell_shares called with a quantity that is 0,       *)
(* negative or a non-integer number such as 1.5 fail with ValueError in    *)
(* every state and for every symbol, with no state mutation; the quantity  *)
(* is never truncated or rounded to an integer.                            *)

C13_Step ==
    \A quantity \in lastCall'.quantity :
        /\ lastCall'.op \in {"buy_shares", "sell_shares"}
        /\ (~quantity.isint \/ quantity.halves <= 0)
        => lastError' = "ValueError" /\ Ledger' = Ledger

C13_InvalidQuantity == [][C13_Step]_vars

\* 1.5 shares of a held symbol refused by sell_shares
C13_Witness ==
    /\ lastCall.op = "sell_shares"
    /\ \A quantity \in lastCall.quantity : ~quantity.isint
    /\ \A symbol \in lastCall.symbol : Owned(holdings, upper(symbol)) >= 2
    /\ lastError = "ValueError"

(* C14: get_portfolio_value() returns cash_balance plus the sum over the   *)
(* holdings of price(symbol) * quantity, counting 0 for a held symbol      *)
(* whose price lookup fails; the call never fails and changes no ledger    *)
(* state.                                                                  *)

RECURSIVE WorthOfShares(_, _)
\* the sum of price * quantity held over the symbols of the price table
WorthOfShares(h, known) ==
    IF known = {} THEN 0
    ELSE LET s == CHOOSE k \in known : TRUE
         IN  prices[s] * Owned(h, s) + WorthOfShares(h, known \ {s})

\* cash plus the worth of the shares, a share without a price counting 0
PortfolioWorth == cash_balance + WorthOfShares(holdings, DOMAIN prices)

C14_Step ==
    lastCall'.op = "get_portfolio_value" =>
        /\ lastError' = NoError
        /\ lastReturn' = {PortfolioWorth}
        /\ Ledger' = Ledger

C14_PortfolioValue == [][C14_Step]_vars

\* the value asked of an account that holds cash and two symbols
C14_Witness ==
    /\ Succeeded("get_portfolio_value")
    /\ cash_balance > 0
    /\ Cardinality(DOMAIN holdings) = 2
    /\ \A v \in lastReturn : v > cash_balance

(* C15: get_profit_loss() equals the portfolio value minus total_deposits, *)
(* with no floor or ceiling (it may be negative), and the call changes no  *)
(* ledger state.                                                           *)

C15_Step ==
    lastCall'.op = "get_profit_loss" =>
        /\ lastError' = NoError
        /\ lastReturn' = {PortfolioWorth - total_deposits}
        /\ Ledger' = Ledger

C15_ProfitLoss == [][C15_Step]_vars

\* a loss reported for an account that holds shares
C15_Witness ==
    /\ Succeeded("get_profit_loss")
    /\ holdings # <<>>
    /\ lastReturn # {}
    /\ \A v \in lastReturn : v < 0

(* C16: get_holdings() and get_transaction_history() return independent   *)
(* copies: nothing the caller does to a returned value (adding or removing *)
(* entries of the returned mapping or list, or altering a field of a       *)
(* returned transaction record) changes the ledger's holdings or           *)
(* transactions, nor therefore what a later accessor call returns.         *)

CallerOps ==
    {"caller_sets_holding", "caller_deletes_holding", "caller_appends_record",
     "caller_deletes_record", "caller_alters_record"}

C16_Step == lastCall'.op \in CallerOps => Ledger' = Ledger

C16_CopiesIndependent == [][C16_Step]_vars

\* the same with the records of the returned list left as they are
C16_ContainersIndependent ==
    [][(lastCall'.op \in CallerOps \ {"caller_alters_record"}) =>
           Ledger' = Ledger]_vars

(* C17: symbols are case-insensitive and stored uppercased: buy_shares and *)
(* sell_shares given any spelling of a symbol act on the one uppercase     *)
(* holdings key, every holdings key and every BUY/SELL record symbol is    *)
(* uppercase, and the oracle gives the same answer for every spelling of a *)
(* symbol.                                                                 *)

\* no character of s is a lower-case letter
NoLowerCase(s) ==
    \A i \in 1..Len(s) : \A j \in 1..Len(LowerCase) : s[i] # LowerCase[j]

\* s and t spell the same symbol, letter case apart
SameSymbol(s, t) ==
    /\ Len(s) = Len(t)
    /\ \A i \in 1..Len(s) :
           \/ s[i] = t[i]
           \/ \E j \in 1..Len(LowerCase) :
                  {s[i], t[i]} = {LowerCase[j], UpperCase[j]}

\* spellings the oracle is asked
Spellings ==
    Symbols \cup
        {<<"A", "a", "p", "L">>, <<"t", "s", "l", "a">>, <<"T", "s", "L", "a">>,
         <<"G", "O", "O", "G", "L">>, <<"g", "o", "o", "g", "l">>,
         <<"f", "a", "k", "e">>}

C17_Stored ==
    /\ \A k \in DOMAIN holdings : NoLowerCase(k)
    /\ \A i \in 1..Len(transactions) :
           transactions[i].type \in {"BUY", "SELL"} =>
               /\ transactions[i].symbol # {}
               /\ \A sym \in transactions[i].symbol : NoLowerCase(sym)
    /\ \A s \in Spellings, t \in Spellings :
           SameSymbol(s, t) => get_share_price(s) = get_share_price(t)

C17_Step ==
    \A symbol \in lastCall'.symbol, quantity \in lastCall'.quantity :
        lastCall'.op \in {"buy_shares", "sell_shares"} /\ lastError' = NoError =>
            \E key \in DOMAIN holdings \cup DOMAIN holdings' :
                /\ SameSymbol(key, symbol)
                /\ NoLowerCase(key)
                /\ SameExceptAt(holdings, holdings', key)
                /\ Owned(holdings', key) =
                       Owned(holdings, key)
                           + (IF lastCall'.op = "buy_shares"
                              THEN quantity.halves \div 2
                              ELSE 0 - (quantity.halves \div 2))

C17_CaseInsensitive == []C17_Stored /\ [][C17_Step]_vars

\* shares bought under a lower-case spelling added to those already held
C17_Witness ==
    /\ Succeeded("buy_shares")
    /\ \A symbol \in lastCall.symbol :
           /\ ~NoLowerCase(symbol)
           /\ Owned(holdings, upper(symbol)) = 2
    /\ Len(transactions) = 3
    /\ transactions[2].quantity = {1}
    /\ transactions[3].quantity = {1}
    /\ Cardinality(DOMAIN holdings) = 1

(* C18: every key of holdings is a symbol known to the pricing oracle, so  *)
(* the lookup that sell_shares makes after the ownership test never fails  *)
(* with InvalidSymbolError and get_portfolio_value never takes its         *)
(* zero-contribution branch.                                               *)

C18_HoldingsKnown ==
    /\ \A k \in DOMAIN holdings :
           k \in DOMAIN prices /\ get_share_price(k).raised = NoError
    /\ lastCall.op = "sell_shares" => lastError # "InvalidSymbolError"

\* a sale that has passed the ownership test and the lookup
C18_Witness ==
    /\ Succeeded("sell_shares")
    /\ \A symbol \in lastCall.symbol : upper(symbol) \in DOMAIN holdings

(* C19: every record of the log is well-formed for its type: the type is   *)
(* DEPOSIT, WITHDRAW, BUY or SELL; a BUY or SELL record has a symbol, a    *)
(* positive integer quantity and a price per share with total_value =      *)
(* quantity * price_per_share; a DEPOSIT or WITHDRAW record has no symbol, *)
(* quantity or price per share and a total_value > 0.                      *)

WellFormed(record) ==
    /\ record.type \in {"DEPOSIT", "WITHDRAW", "BUY", "SELL"}
    /\ record.type \in {"BUY", "SELL"} =>
           /\ Cardinality(record.symbol) = 1
           /\ Cardinality(record.quantity) = 1
           /\ Cardinality(record.price_per_share) = 1
           /\ \A q \in record.quantity, p \in record.price_per_share :
                  q \in Nat /\ q >= 1 /\ record.total_value = q * p
    /\ record.type \in {"DEPOSIT", "WITHDRAW"} =>
           /\ record.symbol = {}
           /\ record.quantity = {}
           /\ record.price_per_share = {}
           /\ record.total_value > 0

C20_Balance ==
    /\ get_portfolio_value(Self).value =
           SumOfType(transactions, "DEPOSIT")
               - SumOfType(transactions, "WITHDRAW")
    /\ get_profit_loss(Self).value = 0 - SumOfType(transactions, "WITHDRAW")
    /\ get_profit_loss(Self).value <= 0

C20_Step ==
    (lastCall'.op \in {"buy_shares", "sell_shares"} /\ lastError' = NoError) =>
        get_portfolio_value(Self').value = get_portfolio_value(Self).value

C20_TradesKeepValue == []C20_Balance /\ [][C20_Step]_vars

\* the loss reported after a purchase, a sale and a withdrawal
C20_Witness ==
    /\ Succeeded("get_profit_loss")
    /\ \A type \in {"WITHDRAW", "BUY", "SELL"} :
           \E i \in 1..Len(transactions) : transactions[i].type = type
    /\ lastReturn = {0 - SumOfType(transactions, "WITHDRAW")}

(* C21: the ledger state is reconstructible from its log: in every         *)
(* reachable state cash_balance = (sum of DEPOSIT totals) - (sum of        *)
(* WITHDRAW totals) - (sum of BUY totals) + (sum of SELL totals), and for  *)
(* every symbol the quantity held (0 if absent) is the sum of the BUY      *)
(* quantities minus the sum of the SELL quantities recorded for it.        *)

RECURSIVE SumOfQuantity(_, _, _)
\* the sum of quantity over the records of one type and one symbol
SumOfQuantity(log, type, key) ==
    IF log = <<>> THEN 0
    ELSE SumOfQuantity(Tail(log), type, key)
             + (IF Head(log).type = type /\ Head(log).symbol = {key}
                THEN CHOOSE q \in Head(log).quantity : TRUE
                ELSE 0)

\* the symbols the state or its log mentions
Mentioned ==
    DOMAIN prices \cup DOMAIN holdings
        \cup UNION {transactions[i].symbol : i \in 1..Len(transactions)}

C21_Reconstructible ==
    /\ cash_balance =
           SumOfType(transactions, "DEPOSIT")
               - SumOfType(transactions, "WITHDRAW")
               - SumOfType(transactions, "BUY")
               + SumOfType(transactions, "SELL")
    /\ \A key \in Mentioned :
           Owned(holdings, key) =
               SumOfQuantity(transactions, "BUY", key)
                   - SumOfQuantity(transactions, "SELL", key)

\* part of a holding sold, the rest still held
C21_Witness ==
    /\ Succeeded("sell_shares")
    /\ \E key \in DOMAIN holdings :
           /\ SumOfQuantity(transactions, "SELL", key) = 1
           /\ SumOfQuantity(transactions, "BUY", key) = 2
           /\ holdings[key] = 1
    /\ cash_balance > 0

(* C22: a non-integer quantity such as 1.5 submitted through handle_buy or *)
(* handle_sell is rejected as an invalid quantity and is not truncated to  *)
(* an integer before it reaches the ledger: the handler answers with an    *)
(* error, no shares are bought or sold and the account is unchanged.       *)

AppOps == {"handle_deposit", "handle_withdraw", "handle_buy", "handle_sell"}

\* the quantity is not a whole number
NonInteger(quantity) == quantity.halves % 2 = 1

\* the message starts with the words given
StartsWith(message, words) == Len(message) >= 1 /\ message[1] = words

C22_Step ==
    \A quantity \in lastCall'.quantity :
        lastCall'.op \in {"handle_buy", "handle_sell"} /\ NonInteger(quantity) =>
            /\ Ledger' = Ledger
            /\ \A r \in lastReturn' : StartsWith(r.message, "Error:")

C22_NonIntegerRejected == [][C22_Step]_vars

(* C23: each handler handles every rejection without propagating it: when  *)
(* the input is missing or non-positive or the ledger rejects the          *)
(* operation it returns a message starting with "Error:" and the shared    *)
(* account is unchanged; it returns a "Successfully ..." message only when *)
(* exactly one transaction was appended; and the report values it returns  *)
(* (cash, portfolio value, profit/loss, holdings, history) are those of    *)
(* the account after the call.                                             *)

\* an input of the call is missing or not positive
BadInput(call) ==
    IF call.op \in {"handle_deposit", "handle_withdraw"}
    THEN call.amount = {} \/ \E a \in call.amount : a <= 0
    ELSE \/ call.symbol = {} \/ call.symbol = {<<>>}
         \/ call.quantity = {} \/ \E q \in call.quantity : q.halves <= 0

\* the whole part of a positive quantity, as an integer
WholePart(q) == [isint |-> TRUE, halves |-> q.halves - (q.halves % 2)]

\* the ledger refuses the operation the handler asks of it
LedgerRejects(call, self) ==
    \/ \E a \in call.amount :
           \/ call.op = "handle_deposit" /\ deposit(self, a).raised # NoError
           \/ call.op = "handle_withdraw" /\ withdraw(self, a).raised # NoError
    \/ \E s \in call.symbol, q \in call.quantity :
           \/ /\ call.op = "handle_buy"
              /\ buy_shares(self, s, WholePart(q)).raised # NoError
           \/ /\ call.op = "handle_sell"
              /\ sell_shares(self, s, WholePart(q)).raised # NoError

\* the row shows the record
RowShows(row, record) ==
    /\ row[1] = record.type
    /\ row[2] = record.symbol
    /\ row[3] = record.quantity
    /\ row[4].number = record.price_per_share
    /\ row[4].text = (IF record.price_per_share = {} THEN "N/A" ELSE "$")
    /\ row[5].number = {record.total_value}
    /\ row[5].text = "$"

\* the report values are those of the account in the variables
ReportsShowAccount(updates) ==
    /\ updates.cash = cash_balance
    /\ updates.value = PortfolioWorth
    /\ updates.profit_loss = PortfolioWorth - total_deposits
    /\ updates.holdings = {<<k, holdings[k]>> : k \in DOMAIN holdings}
    /\ Len(updates.history) = Len(transactions)
    /\ \A i \in 1..Len(transactions) :
           RowShows(updates.history[i],
                    transactions[Len(transactions) + 1 - i])

C23_Reported ==
    lastCall.op \in AppOps =>
        /\ lastError = NoError
        /\ lastReturn # {}
        /\ \A r \in lastReturn : ReportsShowAccount(r.updates)

C23_Step ==
    lastCall'.op \in AppOps =>
        \A r \in lastReturn' :
            /\ StartsWith(r.message, "Error:")
                   \/ StartsWith(r.message, "Successfully")
            /\ BadInput(lastCall') \/ LedgerRejects(lastCall', Self) =>
                   StartsWith(r.message, "Error:") /\ Ledger' = Ledger
            /\ StartsWith(r.message, "Error:") => Ledger' = Ledger
            /\ StartsWith(r.message, "Successfully") =>
                   AppendsOne(transactions, transactions')

C23_HandlersReport == []C23_Reported /\ [][C23_Step]_vars

\* a purchase the ledger refused for lack of funds, reported with the log
C23_Witness ==
    /\ lastCall.op = "handle_buy"
    /\ lastError = NoError
    /\ \E r \in lastReturn :
           /\ r.message = <<"Error:", "InsufficientFundsError">>
           /\ Len(r.updates.history) = 2
           /\ r.updates.history[1][1] = "WITHDRAW"
           /\ r.updates.cash = 0

(* C24: the Account has no internal synchronization: in withdraw,          *)
(* buy_shares and sell_shares the validation and the update are separate   *)
(* steps, so cash_balance >= 0, no holding with quantity <= 0 and one      *)
(* record per successful operation are guaranteed only when the operations *)
(* on an account run one at a time.  As long as no thread has entered a    *)
(* method while another was inside one, the invariants hold whenever no    *)
(* call is in progress and every call that returns normally has appended   *)
(* one record; threads that overlap can leave the balance negative.        *)

AllIdle == \A t \in Threads : frames[t] = Idle

C24_Quiescent ==
    serial /\ AllIdle =>
        /\ cash_balance >= 0
        /\ HoldingsPositive
        /\ lastError # "KeyError"
        /\ C21_Reconstructible

C24_Step ==
    \A t \in Threads :
        frames[t] # Idle /\ frames'[t] = Idle /\ lastError' = NoError =>
            AppendsOne(transactions, transactions')

C24_SerialOnly == []C24_Quiescent /\ [][C24_Step]_vars

\* two withdrawals that overlapped have both passed the test of the balance
C24_Witness ==
    /\ ~serial
    /\ AllIdle
    /\ cash_balance < 0
    /\ Len(transactions) = 3
    /\ transactions[2].type = "WITHDRAW"
    /\ transactions[3].type = "WITHDRAW"

=============================================================================
